---- MODULE Spec2Model ----
(***************************************************************************)
(* Model of wolverine.py: the response validator json_validated_response,  *)
(* the patch engine apply_changes and the orchestrator main.               *)
(*                                                                         *)
(* A file is a sequence of lines, each a string ending in "\n".  A batch   *)
(* is a sequence of JSON objects, modelled as records whose DOMAIN is the  *)
(* set of keys the object carries.  A model reply is a sequence of lexical *)
(* tokens (prose words, brackets, commas, JSON objects).                   *)
(***************************************************************************)
EXTENDS Integers, Sequences, FiniteSets, TLC

VARIABLES
    pc,             \* position of the running call
    file,           \* content of the target file on disk (sequence of lines)
    changes,        \* the batch handed to apply_changes
    original_file_lines, \* apply_changes: the lines read at entry
    file_lines,     \* apply_changes: the buffer built in memory
    error,          \* the exception that ended the call, "none" if none
    messages,       \* json_validated_response: the conversation
    nb_retry,       \* json_validated_response: the remaining-retry counter
    budget,         \* the nb_retry argument the call started with
    content,        \* json_validated_response: the last reply's text
    json_response,  \* json_validated_response: the value returned
    exchanges,      \* number of ollama.chat calls made by the call
    backup_exists,  \* main: whether script_name + ".bak" exists
    backup,         \* main: content of the backup file
    confirm,        \* main: the confirm argument
    confirmation,   \* apply_changes under main: the last input() read, "" if none
    returncode,     \* main: exit status of the last run of the target, -1 if none
    runs,           \* number of runs of the target
    cycles,         \* number of fix cycles started
    writes,         \* number of writes of the target file by apply_changes
    session_start,  \* content of the target when main was first invoked
    last_applied    \* the buffer written by the last completed apply_changes

patchVars == <<file, changes, original_file_lines, file_lines>>
validatorVars == <<messages, nb_retry, budget, content, json_response, exchanges>>
mainVars == <<backup_exists, backup, confirm, confirmation, returncode, runs,
              cycles, writes, session_start, last_applied>>
vars == <<pc, error, patchVars, validatorVars, mainVars>>

(***************************************************************************)
(* Bounds of the model.                                                    *)
(***************************************************************************)
MaxLen == 3         \* longest target file, in lines
MaxBatch == 3       \* most objects in one batch
MaxRetry == 3       \* largest finite retry budget
MaxExchanges == 4   \* cap on the exchanges of an unlimited (-1) call
MaxReply == 5       \* longest model reply, in tokens
MaxCycles == 2      \* most fix cycles in one session
MaxFixBatch == 2    \* most objects in a reply of a session

(***************************************************************************)
(* Python list primitives (0-based index i, negative indices wrap once).   *)
(***************************************************************************)
NormIndex(i, n) == IF i < 0 THEN i + n ELSE i

\* lst[i] = v : IndexError unless -n <= i < n
ListSetItem(lst, i, v) ==
    LET n == Len(lst)
        j == NormIndex(i, n)
    IN  IF j < 0 \/ j >= n
        THEN [err |-> "IndexError", lines |-> lst]
        ELSE [err |-> "none", lines |-> [lst EXCEPT ![j + 1] = v]]

\* The deletion with the line kept as an empty one.
ListDelItemBlank(lst, i) ==
    LET n == Len(lst)
        j == NormIndex(i, n)
    IN  IF j < 0 \/ j >= n
        THEN [err |-> "IndexError", lines |-> lst]
        ELSE [err |-> "none", lines |-> [lst EXCEPT ![j + 1] = "\n"]]

\* del lst[i] : IndexError unless -n <= i < n
ListDelItem(lst, i) ==
    LET n == Len(lst)
        j == NormIndex(i, n)
    IN  IF j < 0 \/ j >= n
        THEN [err |-> "IndexError", lines |-> lst]
        ELSE [err |-> "none",
              lines |-> SubSeq(lst, 1, j) \o SubSeq(lst, j + 2, n)]

\* lst.insert(i, v) : never raises, the index is clamped to 0..n
ListInsert(lst, i, v) ==
    LET n == Len(lst)
        k == NormIndex(i, n)
        j == IF k < 0 THEN 0 ELSE IF k > n THEN n ELSE k
    IN  [err |-> "none",
         lines |-> SubSeq(lst, 1, j) \o <<v>> \o SubSeq(lst, j + 1, n)]

(***************************************************************************)
(* apply_changes: projection, sort and the application loop.               *)
(***************************************************************************)
\* The filter that stops at the first object without an operation.
RECURSIVE OperationChangesUntil(_)
OperationChangesUntil(cs) ==
    IF cs = <<>> THEN <<>>
    ELSE IF "operation" \in DOMAIN Head(cs)
         THEN <<Head(cs)>> \o OperationChangesUntil(Tail(cs))
         ELSE <<>>

\* [c for c in changes if "operation" in c]
RECURSIVE OperationChanges(_)
OperationChanges(cs) ==
    IF cs = <<>> THEN <<>>
    ELSE IF "operation" \in DOMAIN Head(cs)
         THEN <<Head(cs)>> \o OperationChanges(Tail(cs))
         ELSE OperationChanges(Tail(cs))

\* [c["explanation"] for c in changes if "explanation" in c]
RECURSIVE Explanations(_)
Explanations(cs) ==
    IF cs = <<>> THEN <<>>
    ELSE IF "explanation" \in DOMAIN Head(cs)
         THEN <<Head(cs).explanation>> \o Explanations(Tail(cs))
         ELSE Explanations(Tail(cs))

\* Insert c into a list sorted by descending line, after every element
\* whose line is >= c.line (equal keys keep their order: the sort is stable).
RECURSIVE InsertDesc(_, _)
InsertDesc(sorted, c) ==
    IF sorted = <<>> THEN <<c>>
    ELSE IF Head(sorted).line >= c.line
         THEN <<Head(sorted)>> \o InsertDesc(Tail(sorted), c)
         ELSE <<c>> \o sorted

RECURSIVE SortFrom(_, _)
SortFrom(sorted, cs) ==
    IF cs = <<>> THEN sorted
    ELSE SortFrom(InsertDesc(sorted, Head(cs)), Tail(cs))

\* The batch left in response order.
Unsorted(cs) == cs

\* operation_changes.sort(key=lambda x: x["line"], reverse=True)
SortDesc(cs) == SortFrom(<<>>, cs)

\* One iteration of the loop body "for change in operation_changes".
ApplyChange(lst, change) ==
    IF "content" \notin DOMAIN change
    THEN [err |-> "KeyError", lines |-> lst]
    ELSE IF change.operation = "Replace"
         THEN ListSetItem(lst, change.line - 1, change.content \o "\n")
    ELSE IF change.operation = "Delete"
         THEN ListDelItem(lst, change.line - 1)
    ELSE IF change.operation = "InsertAfter"
         THEN ListInsert(lst, change.line, change.content \o "\n")
    ELSE [err |-> "none", lines |-> lst]

\* The loop: stops at the first exception, with the buffer as it was then.
RECURSIVE ApplyLoop(_, _)
ApplyLoop(lst, ops) ==
    IF ops = <<>> THEN [err |-> "none", lines |-> lst]
    ELSE LET r == ApplyChange(lst, Head(ops))
         IN  IF r.err # "none" THEN r ELSE ApplyLoop(r.lines, Tail(ops))

\* Lines 87-102: the buffer apply_changes builds from the lines it read.
NewBuffer(lines, cs) == ApplyLoop(lines, SortDesc(OperationChanges(cs)))

\* confirmation.lower()
Lower(s) == IF s = "Y" THEN "y" ELSE IF s = "N" THEN "n" ELSE s

(***************************************************************************)
(* Inputs of the patch engine.                                             *)
(***************************************************************************)
OrigLines == <<"a\n", "b\n", "c\n", "d\n", "e\n">>
Buffers == {SubSeq(OrigLines, 1, n) : n \in 0..MaxLen}

\* The objects of a reply that follows the prompt's format, for a file of n
\* lines: edits with a content key addressing lines 1..n, and commentary.
WellFormedFor(n) ==
    [content : {"z"}, line : 1..n, operation : {"Replace"}]
    \cup [content : {"x", "y"}, line : 1..n, operation : {"InsertAfter"}]
    \cup [content : {""}, line : 1..n, operation : {"Delete"}]
    \cup {[explanation |-> "fix"]}

\* Objects outside the format: edits addressing line 0 or line n+1, and
\* Deletes that carry no content key.
MalformedFor(n) ==
    [content : {"z"}, line : {0, n + 1}, operation : {"Replace"}]
    \cup [content : {"x"}, line : {0, n + 1}, operation : {"InsertAfter"}]
    \cup [content : {""}, line : {0, n + 1}, operation : {"Delete"}]
    \cup [line : 1..n, operation : {"Delete"}]

Confirmations == {"y", "Y", "n"}

InitialMessages ==
    <<[content |-> "SYSTEM_PROMPT", role |-> "system"],
      [content |-> "prompt", role |-> "user"]>>

\* main is not running: its variables keep these values.
NoSession ==
    /\ backup_exists = FALSE
    /\ backup = <<>>
    /\ confirm = FALSE
    /\ confirmation = ""
    /\ returncode = -1
    /\ runs = 0
    /\ cycles = 0
    /\ writes = 0
    /\ session_start = <<>>
    /\ last_applied = <<>>

InitPatch ==
    /\ pc = "apply_input"
    /\ NoSession
    /\ file \in Buffers
    /\ changes = <<>>
    /\ original_file_lines = <<>>
    /\ file_lines = <<>>
    /\ error = "none"
    /\ messages = InitialMessages
    /\ nb_retry = -1
    /\ budget = -1
    /\ content = <<>>
    /\ json_response = <<>>
    /\ exchanges = 0

\* The caller extends the batch it will hand to apply_changes with an
\* object of the prompt's format.
AddChange ==
    /\ pc = "apply_input"
    /\ Len(changes) < MaxBatch
    /\ \E c \in WellFormedFor(Len(file)) : changes' = Append(changes, c)
    /\ UNCHANGED <<pc, error, file, original_file_lines, file_lines, validatorVars,
                   mainVars>>

\* The caller extends the batch with an object outside the format.
AddMalformedChange ==
    /\ pc = "apply_input"
    /\ Len(changes) < MaxBatch
    /\ \E c \in MalformedFor(Len(file)) : changes' = Append(changes, c)
    /\ UNCHANGED <<pc, error, file, original_file_lines, file_lines, validatorVars,
                   mainVars>>

\* The gate that lets every answer through.
DeclinesNever(cnf, answer) == FALSE

\* Lines 118-122: the confirmation gate; input() is read only when confirm
\* is set.
Declines(cnf, answer) == cnf /\ Lower(answer) # "y"

\* The file written line by line while the loop runs.
WrittenOnError(old, partial) == partial

\* Lines 91-125: the file is opened for writing after the loop, so an
\* exception in the loop leaves it as it was.
KeptOnError(old, partial) == old

\* Lines 84-126: apply_changes on the batch cs; pcApplied is where control
\* goes after "Changes applied.".
ApplyEffect(cs, cnf, answer, pcApplied) ==
    LET r == NewBuffer(file, cs)
    IN  /\ original_file_lines' = file
        /\ file_lines' = r.lines
        /\ error' = r.err
        /\ IF r.err # "none"
           THEN pc' = "apply_error" /\ file' = KeptOnError(file, r.lines)
           ELSE IF Declines(cnf, answer)
                THEN pc' = "declined" /\ file' = file
                ELSE pc' = pcApplied /\ file' = r.lines

\* apply_changes(file_path, changes, confirm), the whole call.
ApplyChanges ==
    /\ pc = "apply_input"
    /\ \E cnf \in BOOLEAN :
         \E answer \in IF cnf THEN Confirmations ELSE {""} :
            ApplyEffect(changes, cnf, answer, "applied")
    /\ UNCHANGED <<changes, validatorVars, mainVars>>

\* apply_changes on batches that follow the prompt's format.
NextPatch == AddChange \/ ApplyChanges

SpecPatch == InitPatch /\ [][NextPatch]_vars

\* apply_changes on any batch.
NextPatchAny == AddChange \/ AddMalformedChange \/ ApplyChanges

SpecPatchAny == InitPatch /\ [][NextPatchAny]_vars

(***************************************************************************)
(* json_validated_response: the reply text and its parsing.                *)
(*                                                                         *)
(* A reply is a sequence of tokens: "w" a word of prose, "[" "]" "," the   *)
(* JSON punctuation, "obj" a JSON object literal carrying its value v.     *)
(***************************************************************************)
Tok(t) == [t |-> t]
Obj(v) == [v |-> v, t |-> "obj"]

ReplyObjects == {[explanation |-> "fix"]}
Tokens == {Tok("w"), Tok("["), Tok("]"), Tok(",")} \cup {Obj(v) : v \in ReplyObjects}
Replies == UNION {[1..n -> Tokens] : n \in 0..MaxReply}

\* content.index("["): the position of the first "[", 0 for ValueError
IndexOfBracket(ts) ==
    IF \E i \in 1..Len(ts) : ts[i].t = "["
    THEN CHOOSE i \in 1..Len(ts) :
            ts[i].t = "[" /\ \A k \in 1..(i - 1) : ts[k].t # "["
    ELSE 0

ParseFail == [ok |-> FALSE, val |-> [array |-> <<>>], next |-> 0]

\* The JSON decoder on the tokens from position i: a value is an object
\* literal or an array "[" "]" or "[" value ("," value)* "]"; next is the
\* position after the value.  A nested array is the record [array |-> elems].
RECURSIVE ParseValue(_, _)
RECURSIVE ParseElements(_, _, _)
ParseValue(ts, i) ==
    IF i > Len(ts) THEN ParseFail
    ELSE IF ts[i].t = "obj" THEN [ok |-> TRUE, val |-> ts[i].v, next |-> i + 1]
    ELSE IF ts[i].t = "["
         THEN IF i + 1 <= Len(ts) /\ ts[i + 1].t = "]"
              THEN [ok |-> TRUE, val |-> [array |-> <<>>], next |-> i + 2]
              ELSE ParseElements(ts, i + 1, <<>>)
    ELSE ParseFail

ParseElements(ts, i, acc) ==
    LET v == ParseValue(ts, i)
    IN  IF ~v.ok \/ v.next > Len(ts) THEN ParseFail
        ELSE IF ts[v.next].t = ","
             THEN ParseElements(ts, v.next + 1, Append(acc, v.val))
        ELSE IF ts[v.next].t = "]"
             THEN [ok |-> TRUE, val |-> [array |-> Append(acc, v.val)],
                   next |-> v.next + 1]
        ELSE ParseFail

\* json.loads(text): the whole text must be one JSON value
JsonLoads(ts) ==
    LET r == ParseValue(ts, 1)
    IN  IF r.ok /\ r.next = Len(ts) + 1
        THEN [ok |-> TRUE, val |-> r.val]
        ELSE [ok |-> FALSE, val |-> r.val]

\* The try body without the slice: the whole reply is given to json.loads.
TryParseWhole(ts) ==
    IF ts # <<>> /\ ts[1].t = "[" /\ JsonLoads(ts).ok
    THEN [ok |-> TRUE, val |-> JsonLoads(ts).val.array, step |-> "none",
          exc |-> "none"]
    ELSE [ok |-> FALSE, val |-> <<>>, step |-> "loads",
          exc |-> "JSONDecodeError"]

\* Lines 42-44: the body of the try block.  step names the statement that
\* raised: "index" (no "[" in the reply) or "loads" (the slice is no JSON).
TryParse(ts) ==
    LET json_start_index == IndexOfBracket(ts)
    IN  IF json_start_index = 0
        THEN [ok |-> FALSE, val |-> <<>>, step |-> "index", exc |-> "ValueError"]
        ELSE LET json_data == SubSeq(ts, json_start_index, Len(ts))
                 r == JsonLoads(json_data)
             IN  IF r.ok
                 THEN [ok |-> TRUE, val |-> r.val.array, step |-> "none",
                       exc |-> "none"]
                 ELSE [ok |-> FALSE, val |-> <<>>,
                       step |-> "loads", exc |-> "JSONDecodeError"]

(***************************************************************************)
(* json_validated_response: the retry loop.                                *)
(***************************************************************************)
\* The loop leaving only when the counter is below 1.
LoopContinuesPositive(n) == n > 0

\* The loop running one more time when the counter has reached 0.
LoopContinuesNonNegative(n) == n >= 0

\* Line 36: while nb_retry != 0
LoopContinues(n) == n # 0

\* The counter left alone.
DecrementNever(n) == n

\* Lines 53-54: if nb_retry > 0: nb_retry -= 1
Decrement(n) == IF n > 0 THEN n - 1 ELSE n

\* The try block opened before the exchange.
InTryAll(step) == TRUE

\* Lines 41-46: the statements inside try ... except Exception
InTry(step) == step \in {"index", "loads"}

\* Lines 49-52: the correction request
Correction ==
    [content |-> "Your response could not be parsed by json.loads. Please restate it as valid pure JSON.",
     role |-> "user"]

\* The exceptions of the exchange: ollama.chat raising (line 38), and the
\* response lacking ['message']['content'] (line 39).
ChatErrors ==
    {[step |-> "chat", exc |-> "ConnectionError"],
     [step |-> "content", exc |-> "KeyError"]}
ChatExcs == {e.exc : e \in ChatErrors}

\* An exception raised at a step of the loop body: caught by except
\* Exception (lines 46-54) when the step is inside the try block, propagated
\* to the caller otherwise.
Except(step, exc) ==
    /\ error' = exc
    /\ IF InTry(step)
       THEN /\ messages' = Append(messages, Correction)
            /\ nb_retry' = Decrement(nb_retry)
            /\ content' = <<>>
            /\ pc' = "loop"
       ELSE /\ pc' = "raised"
            /\ UNCHANGED <<messages, nb_retry, content>>

InitValidator ==
    /\ pc = "loop"
    /\ NoSession
    /\ budget \in -1..MaxRetry
    /\ nb_retry = budget
    /\ messages = InitialMessages
    /\ content = <<>>
    /\ json_response = <<>>
    /\ exchanges = 0
    /\ error = "none"
    /\ file = <<>>
    /\ changes = <<>>
    /\ original_file_lines = <<>>
    /\ file_lines = <<>>

\* Lines 36-39, the exchange returning a reply out of replies: content is
\* the reply's text.
Exchange(replies) ==
    /\ pc = "loop"
    /\ LoopContinues(nb_retry)
    /\ exchanges < MaxExchanges
    /\ exchanges' = exchanges + 1
    /\ \E reply \in replies : content' = reply
    /\ pc' = "try"
    /\ UNCHANGED <<error, messages, nb_retry, budget, json_response, patchVars,
                   mainVars>>

ChatReply == Exchange(Replies)

\* Lines 36-39, the exchange failing.
ChatFails ==
    /\ pc = "loop"
    /\ LoopContinues(nb_retry)
    /\ exchanges < MaxExchanges
    /\ exchanges' = exchanges + 1
    /\ \E e \in ChatErrors : Except(e.step, e.exc)
    /\ UNCHANGED <<budget, json_response, patchVars, mainVars>>

\* Lines 41-54: the reply is parsed; the array is returned, or the failure
\* is handled and the loop goes round (content is dead from then on).
ParseReply ==
    /\ pc = "try"
    /\ LET r == TryParse(content)
       IN  IF r.ok
           THEN /\ json_response' = r.val
                /\ pc' = "returned"
                /\ UNCHANGED <<error, messages, nb_retry, content>>
           ELSE /\ Except(r.step, r.exc)
                /\ UNCHANGED json_response
    /\ UNCHANGED <<budget, exchanges, patchVars, mainVars>>

\* Line 56: the loop left with the counter at 0.
RaiseExhausted ==
    /\ pc = "loop"
    /\ ~LoopContinues(nb_retry)
    /\ pc' = "raised"
    /\ error' = "NoValidJSON"
    /\ UNCHANGED <<patchVars, validatorVars, mainVars>>

NextValidator == ChatReply \/ ChatFails \/ ParseReply \/ RaiseExhausted

SpecValidator == InitValidator /\ [][NextValidator]_vars

(***************************************************************************)
(* main: backup, revert and the run / fix loop.                            *)
(***************************************************************************)
\* The objects a reply may hold in a session.
FixObjects ==
    {[content |-> "z", line |-> 1, operation |-> "Replace"],
     [content |-> "", line |-> 1, operation |-> "Delete"]}

FixBatches == UNION {[1..k -> FixObjects] : k \in 0..MaxFixBatch}

\* The text of a JSON array holding the objects objs.
RECURSIVE Elements(_)
Elements(objs) ==
    IF objs = <<>> THEN <<>>
    ELSE IF Len(objs) = 1 THEN <<Obj(objs[1])>>
    ELSE <<Obj(objs[1]), Tok(",")>> \o Elements(Tail(objs))

ArrayText(objs) == <<Tok("[")>> \o Elements(objs) \o <<Tok("]")>>

\* The replies of a session: an array of objects, an array after a word of
\* prose, a reply that is only prose, and an array followed by commentary.
FixReplies ==
    {ArrayText(b) : b \in FixBatches}
    \cup {<<Tok("w")>> \o ArrayText(<<>>), <<Tok("w")>>,
          ArrayText(<<>>) \o <<Tok("w")>>}

\* The positions at which a process has ended.
SessionEnded == {"success", "raised", "apply_error", "declined"}
RevertEnded == {"reverted", "no_backup"}

\* The exit status of the process at position p, -1 while it runs: 0 at the
\* end of main and at sys.exit(0) (lines 122, 142), 1 at sys.exit(1) (line
\* 145) and for an exception that nothing catches.
ExitCode(p) ==
    IF p \in {"success", "declined", "reverted"} THEN 0
    ELSE IF p \in {"no_backup", "raised", "apply_error"} THEN 1
    ELSE -1

\* The copy made whether or not the backup exists.
RevertTargetAlways(exists, bak, cur) == bak

\* Lines 139-145: the content of the target after main(revert=True)
RevertTarget(exists, bak, cur) == IF exists THEN bak ELSE cur

\* The loop left after any run.
SucceededAlways(rc) == TRUE

\* Line 152: if returncode == 0
Succeeded(rc) == rc = 0

\* The backup taken again when a patch has been written.
BackupAfterPatchCurrent(bak, written) == written

\* Lines 147-161: shutil.copy is outside the loop, a fix cycle leaves the
\* backup as it is.
BackupAfterPatch(bak, written) == bak

Init ==
    /\ pc = "main"
    /\ file \in Buffers
    /\ backup_exists \in BOOLEAN
    /\ backup = IF backup_exists THEN <<"old\n">> ELSE <<>>
    /\ session_start = file
    /\ last_applied = file
    /\ confirm = FALSE
    /\ confirmation = ""
    /\ returncode = -1
    /\ runs = 0
    /\ cycles = 0
    /\ writes = 0
    /\ changes = <<>>
    /\ original_file_lines = <<>>
    /\ file_lines = <<>>
    /\ error = "none"
    /\ messages = <<>>
    /\ nb_retry = -1
    /\ budget = -1
    /\ content = <<>>
    /\ json_response = <<>>
    /\ exchanges = 0

\* Lines 129-147, revert=False: the backup is taken and the loop entered.
MainStart ==
    /\ pc = "main"
    /\ \E cnf \in BOOLEAN : confirm' = cnf
    /\ backup' = file
    /\ backup_exists' = TRUE
    /\ pc' = "run"
    /\ UNCHANGED <<error, patchVars, validatorVars, confirmation, returncode,
                   runs, cycles, writes, session_start, last_applied>>

\* Lines 129-145, revert=True, as the first invocation or after a session
\* has ended.
MainRevert ==
    /\ pc \in {"main"} \cup SessionEnded
    /\ file' = RevertTarget(backup_exists, backup, file)
    /\ pc' = IF backup_exists THEN "reverted" ELSE "no_backup"
    /\ UNCHANGED <<error, changes, original_file_lines, file_lines,
                   validatorVars, mainVars>>

\* Lines 150-159 and 59-80: the target is run; on success the loop is left,
\* otherwise send_error_to_gpt builds the conversation and calls
\* json_validated_response with its default nb_retry.
RunScript ==
    /\ pc = "run"
    /\ \E rc \in {0, 1} :
        /\ Succeeded(rc) \/ cycles < MaxCycles
        /\ returncode' = rc
        /\ runs' = runs + 1
        /\ IF Succeeded(rc)
           THEN /\ pc' = "success"
                /\ UNCHANGED <<cycles, validatorVars>>
           ELSE /\ pc' = "loop"
                /\ cycles' = cycles + 1
                /\ messages' = InitialMessages
                /\ nb_retry' = -1
                /\ budget' = -1
                /\ exchanges' = 0
                /\ content' = <<>>
                /\ json_response' = <<>>
    /\ UNCHANGED <<error, patchVars, backup_exists, backup, confirm,
                   confirmation, writes, session_start, last_applied>>

\* Lines 36-39 in a session.
FixChatReply == Exchange(FixReplies)

\* Lines 159-161: apply_changes on the array returned; after a write the
\* loop runs the target again.
FixApply ==
    /\ pc = "returned"
    /\ changes' = json_response
    /\ \E answer \in IF confirm THEN Confirmations ELSE {""} :
        /\ ApplyEffect(json_response, confirm, answer, "run")
        /\ confirmation' = IF error' = "none" THEN answer ELSE confirmation
    /\ writes' = IF pc' = "run" THEN writes + 1 ELSE writes
    /\ last_applied' = IF pc' = "run" THEN file_lines' ELSE last_applied
    /\ backup' = IF pc' = "run" THEN BackupAfterPatch(backup, file') ELSE backup
    /\ UNCHANGED <<validatorVars, backup_exists, confirm, returncode, runs,
                   cycles, session_start>>

\* main.  Line 56 cannot be reached in a session: nb_retry is -1 there.
Next ==
    \/ MainStart
    \/ MainRevert
    \/ RunScript
    \/ FixChatReply
    \/ ChatFails
    \/ ParseReply
    \/ FixApply

Spec == Init /\ [][Next]_vars

(***************************************************************************)
(* The claims about json_validated_response.                               *)
(***************************************************************************)
\* The replies that failed to parse so far: every exchange made, but the one
\* whose reply is under examination or was returned, and the one that raised.
ParseFailures ==
    exchanges
    - (IF pc \in {"try", "returned"} THEN 1 ELSE 0)
    - (IF pc = "raised" /\ error \in ChatExcs THEN 1 ELSE 0)

\* C3: with budget N >= 0 the call never makes more than N+1 exchanges, once
\* N replies have failed the loop is left for the exhausted-retries error,
\* that error is raised only then, and with N = 0 no exchange is made.
C3_ExhaustedAfterN ==
    budget >= 0 =>
        /\ exchanges <= budget + 1
        /\ (pc = "loop" /\ ParseFailures = budget) => ~LoopContinues(nb_retry)
        /\ error = "NoValidJSON" => (pc = "raised" /\ ParseFailures = budget)
        /\ budget = 0 => exchanges = 0

\* Three replies failed with budget 3 and the error was raised.
C3_Witness ==
    /\ budget = 3
    /\ pc = "raised"
    /\ error = "NoValidJSON"
    /\ exchanges = 3
    /\ Len(messages) = Len(InitialMessages) + 3

\* C4 (as claimed): with budget N > 0, after N unparseable replies the
\* validator still makes an (N+1)-th exchange.
C4_AdditionalAttempt ==
    (budget > 0 /\ pc = "loop" /\ ParseFailures = budget) =>
        LoopContinues(nb_retry)

\* C4 (amended): with budget N > 0 the validator allows N attempts in all:
\* while fewer than N replies have failed it makes another exchange, after N
\* failures it makes none, and an array is returned only from one of the
\* first N replies.
C4_NAttemptsInAll ==
    budget > 0 =>
        /\ exchanges <= budget
        /\ (pc = "loop" /\ ParseFailures < budget) => LoopContinues(nb_retry)
        /\ (pc = "loop" /\ ParseFailures = budget) => ~LoopContinues(nb_retry)
        /\ pc = "returned" => ParseFailures < budget

\* Budget 2: the second reply failed and the loop is left without a third
\* exchange.
C4_Witness ==
    /\ budget = 2
    /\ pc = "raised"
    /\ error = "NoValidJSON"
    /\ exchanges = 2

\* C5: with budget -1 the counter stays -1 whatever fails, the loop condition
\* stays true and the exhausted-retries error is never raised.
C5_UnlimitedNeverExhausted ==
    budget = -1 =>
        /\ nb_retry = -1
        /\ error # "NoValidJSON"
        /\ pc = "loop" => LoopContinues(nb_retry)

\* Three replies in a row failed under budget -1 and the loop goes on.
C5_Witness ==
    /\ budget = -1
    /\ pc = "loop"
    /\ ParseFailures >= 3
    /\ Len(messages) >= Len(InitialMessages) + 3

\* C6 (as claimed): after k failed exchanges the conversation is the initial
\* messages followed by k pairs (assistant turn, correction request).
C6_AssistantTurnAppended ==
    /\ Len(messages) = Len(InitialMessages) + 2 * ParseFailures
    /\ \A k \in 1..ParseFailures :
          /\ messages[Len(InitialMessages) + 2 * k - 1].role = "assistant"
          /\ messages[Len(InitialMessages) + 2 * k] = Correction

\* A reply made of prose words, then a balanced JSON array ending at j, then
\* at least one word of commentary.
ArrayEndsAt(ts, j) ==
    LET i == IndexOfBracket(ts)
    IN  /\ i > 0
        /\ j \in i..(Len(ts) - 1)
        /\ \A k \in 1..(i - 1) : ts[k].t = "w"
        /\ JsonLoads(SubSeq(ts, i, j)).ok
        /\ \A k \in (j + 1)..Len(ts) : ts[k].t = "w"

HasTrailingCommentary(ts) == \E j \in 1..Len(ts) : ArrayEndsAt(ts, j)

ArrayBeforeCommentary(ts) ==
    LET j == CHOOSE j \in 1..Len(ts) : ArrayEndsAt(ts, j)
    IN  JsonLoads(SubSeq(ts, IndexOfBracket(ts), j)).val.array

\* C7 (as claimed): a reply of prose, a balanced array and trailing
\* commentary is accepted: the array is returned, no correction turn is
\* appended and no retry is consumed.
C7_TrailingCommentaryAccepted ==
    [][(pc = "try" /\ HasTrailingCommentary(content)) =>
          /\ pc' = "returned"
          /\ json_response' = ArrayBeforeCommentary(content)
          /\ messages' = messages
          /\ nb_retry' = nb_retry]_vars

\* C8: the step of a failed exchange raises at once, with the conversation
\* and the counter as they were, and nothing happens after a raise.
C8_ChatFailurePropagates ==
    [][/\ pc # "raised"
       /\ (exchanges' = exchanges + 1 /\ pc' # "try") =>
             /\ pc' = "raised"
             /\ error' \in ChatExcs
             /\ messages' = messages
             /\ nb_retry' = nb_retry
             /\ json_response' = json_response]_vars

\* With budget 2, one reply failed and then the exchange raised: one retry is
\* left unused.
C8_Witness ==
    /\ budget = 2
    /\ pc = "raised"
    /\ error = "ConnectionError"
    /\ exchanges = 2
    /\ nb_retry = 1
    /\ Len(messages) = Len(InitialMessages) + 1

(***************************************************************************)
(* Patch engine: reference semantics and the claims about apply_changes.   *)
(***************************************************************************)
ApplyDone == {"applied", "declined", "apply_error"}

IsEdit(c) == {"operation", "line", "content"} \subseteq DOMAIN c

\* Every object is an edit carrying operation, line and content, the lines
\* are in 1..Len(lines) and pairwise distinct.
NonConflicting(lines, cs) ==
    /\ \A i \in 1..Len(cs) : IsEdit(cs[i]) /\ cs[i].line \in 1..Len(lines)
    /\ \A i, j \in 1..Len(cs) : i # j => cs[i].line # cs[j].line

\* What the edits of cs make of original line k, read against the original
\* numbering (at most one edit addresses k).
LineImage(lines, cs, k) ==
    IF \E i \in 1..Len(cs) : cs[i].line = k
    THEN LET c == cs[CHOOSE i \in 1..Len(cs) : cs[i].line = k]
         IN  IF c.operation = "Replace" THEN <<c.content \o "\n">>
             ELSE IF c.operation = "Delete" THEN <<>>
             ELSE <<lines[k], c.content \o "\n">>
    ELSE <<lines[k]>>

RECURSIVE SimultaneousFrom(_, _, _)
SimultaneousFrom(lines, cs, k) ==
    IF k > Len(lines) THEN <<>>
    ELSE LineImage(lines, cs, k) \o SimultaneousFrom(lines, cs, k + 1)

Simultaneous(lines, cs) == SimultaneousFrom(lines, cs, 1)

Perms(n) == {p \in [1..n -> 1..n] : \A i, j \in 1..n : i # j => p[i] # p[j]}
Permuted(cs, p) == [i \in 1..Len(cs) |-> cs[p[i]]]

CountOp(cs, kind) ==
    Cardinality({i \in 1..Len(cs) :
                    "operation" \in DOMAIN cs[i] /\ cs[i].operation = kind})

\* C1: for a batch of edits with pairwise distinct in-range lines, the buffer
\* apply_changes builds is the simultaneous reading of the edits against the
\* original numbering, and every reordering of the batch builds the same one.
C1_OrderIndependent ==
    (pc \in ApplyDone /\ NonConflicting(original_file_lines, changes)) =>
        /\ error = "none"
        /\ file_lines = Simultaneous(original_file_lines, changes)
        /\ \A p \in Perms(Len(changes)) :
              NewBuffer(original_file_lines, Permuted(changes, p)) =
                  [err |-> "none", lines |-> file_lines]

\* A three-edit batch with one edit of each kind, given in ascending line
\* order, was applied and written.
C1_Witness ==
    /\ pc = "applied"
    /\ NonConflicting(original_file_lines, changes)
    /\ Len(changes) = 3
    /\ CountOp(changes, "Delete") = 1
    /\ CountOp(changes, "InsertAfter") = 1
    /\ changes[1].line < changes[2].line
    /\ changes[2].line < changes[3].line
    /\ file = file_lines

\* C2 (as claimed): a batch holding an edit whose line is below 1 or above
\* the buffer length is rejected, and the file on disk keeps its content.
C2_OutOfRangeRejected ==
    (/\ pc \in ApplyDone
     /\ \E i \in 1..Len(changes) :
           /\ "operation" \in DOMAIN changes[i]
           /\ (changes[i].line < 1 \/ changes[i].line > Len(original_file_lines)))
    => (pc = "apply_error" /\ file = original_file_lines)

\* The batch with a content key given to every Delete that lacks one.
FillContent(cs) ==
    [i \in 1..Len(cs) |->
        IF "operation" \in DOMAIN cs[i] /\ "content" \notin DOMAIN cs[i]
        THEN [content |-> "d", line |-> cs[i].line,
              operation |-> cs[i].operation]
        ELSE cs[i]]

\* C9 (as claimed): a Delete without a content key is applied like one that
\* carries it, so the batch completes with the same buffer.
C9_DeleteWithoutContent ==
    pc \in ApplyDone =>
        /\ [err |-> error, lines |-> file_lines] =
               NewBuffer(original_file_lines, FillContent(changes))
        /\ (/\ original_file_lines = <<"a\n", "b\n", "c\n">>
            /\ changes = <<[line |-> 2, operation |-> "Delete"],
                           [content |-> "x", line |-> 1, operation |-> "InsertAfter"],
                           [content |-> "z", line |-> 3, operation |-> "Replace"]>>)
           => (error = "none" /\ file_lines = <<"a\n", "x\n", "z\n">>)

\* C10: for a batch of edits with pairwise distinct in-range lines, d Deletes
\* and i InsertAfters, the buffer built has length L - d + i.
C10_LengthAccounting ==
    (pc \in ApplyDone /\ NonConflicting(original_file_lines, changes)) =>
        Len(file_lines) = Len(original_file_lines)
                            - CountOp(changes, "Delete")
                            + CountOp(changes, "InsertAfter")

\* Two Deletes and one InsertAfter were applied to a three-line file.
C10_Witness ==
    /\ pc = "applied"
    /\ NonConflicting(original_file_lines, changes)
    /\ Len(original_file_lines) = 3
    /\ CountOp(changes, "Delete") = 2
    /\ CountOp(changes, "InsertAfter") = 1
    /\ Len(file) = 2

\* The batch holds Replace operations only.
ReplaceOnly(cs) ==
    /\ cs # <<>>
    /\ \A i \in 1..Len(cs) :
         "operation" \in DOMAIN cs[i] /\ cs[i].operation = "Replace"

\* No operation of the batch has line k.
Unaddressed(cs, k) == \A i \in 1..Len(cs) : cs[i].line # k

\* C11: a batch of Replace operations only that apply_changes applies to
\* completion leaves the length of the buffer as it was, and every line whose
\* number is the line of no operation of the batch as it was.
C11_ReplaceOnlyFrame ==
    (pc \in {"applied", "declined"} /\ ReplaceOnly(changes)) =>
        /\ Len(file_lines) = Len(original_file_lines)
        /\ \A k \in 1..Len(original_file_lines) :
             Unaddressed(changes, k) => file_lines[k] = original_file_lines[k]

HasOperation(c) == "operation" \in DOMAIN c

\* The batch with the objects that have no operation field removed.
WithoutCommentary(cs) == SelectSeq(cs, HasOperation)

\* The batch holds objects without an operation field only.
OnlyCommentary(cs) ==
    cs # <<>> /\ \A i \in 1..Len(cs) : ~HasOperation(cs[i])

\* C19: objects without an operation field are never applied as edits:
\* apply_changes yields for a batch what it yields for the batch without
\* those objects, and a batch of explanation objects only leaves the buffer,
\* and the file written, equal to the original.
C19_CommentaryIgnored ==
    pc \in ApplyDone =>
        /\ [err |-> error, lines |-> file_lines]
              = NewBuffer(original_file_lines, WithoutCommentary(changes))
        /\ OnlyCommentary(changes) =>
              /\ error = "none"
              /\ file_lines = original_file_lines
              /\ file = original_file_lines

\* An edit that follows an explanation object in the batch has been applied.
C19_Witness ==
    /\ pc = "applied"
    /\ Len(changes) >= 2
    /\ ~HasOperation(changes[1])
    /\ HasOperation(changes[2])
    /\ file # original_file_lines

\* sorted is ops in non-increasing order of line, operations of the same line
\* in the order they have in ops.
StableDescOf(sorted, ops) ==
    /\ Len(sorted) = Len(ops)
    /\ \E p \in Perms(Len(ops)) :
         /\ \A i \in 1..Len(ops) : sorted[i] = ops[p[i]]
         /\ \A i, j \in 1..Len(ops) :
              i < j => \/ ops[p[i]].line > ops[p[j]].line
                       \/ ops[p[i]].line = ops[p[j]].line /\ p[i] < p[j]

\* Two operations of the batch have the same line.
HasTie(cs) ==
    \E i, j \in 1..Len(cs) :
        /\ i < j
        /\ HasOperation(cs[i]) /\ HasOperation(cs[j])
        /\ cs[i].line = cs[j].line

\* C20: operations are applied in non-increasing order of line, operations
\* of the same line in the order of the response, and for a batch with lines
\* in range the engine does not crash because of a tie.
C20_StableTieBreakNoCrash ==
    pc \in ApplyDone =>
        /\ StableDescOf(SortDesc(OperationChanges(changes)),
                        WithoutCommentary(changes))
        /\ HasTie(changes) => error = "none"

\* The text of the reply from its first "[" to its end.
SliceFromBracket(ts) == SubSeq(ts, IndexOfBracket(ts), Len(ts))

\* That text exists and is a JSON array.
ValidArraySlice(ts) ==
    IndexOfBracket(ts) # 0 /\ JsonLoads(SliceFromBracket(ts)).ok

\* C18: a reply whose text from its first "[" to its end is a JSON array is
\* returned, parsed, on that very exchange, whatever prose precedes the "[",
\* with no correction turn and no further exchange; and a value is returned
\* in no other way.
C18_ValidSliceReturned ==
    [][ /\ pc = "try" =>
            /\ ValidArraySlice(content) <=> pc' = "returned"
            /\ ValidArraySlice(content) =>
                  /\ json_response' = JsonLoads(SliceFromBracket(content)).val.array
                  /\ messages' = messages
                  /\ exchanges' = exchanges
                  /\ nb_retry' = nb_retry
        /\ pc' = "returned" => pc \in {"try", "returned"}
        /\ pc = "returned" => exchanges' = exchanges /\ messages' = messages
      ]_vars

\* An array that follows a word of prose has been returned.
C18_Witness ==
    /\ pc = "returned"
    /\ Len(content) >= 3
    /\ content[1].t = "w"
    /\ content[2].t = "["
    /\ json_response # <<>>

(***************************************************************************)
(* The claims about main.                                                  *)
(***************************************************************************)
\* The positions of a session that has taken its backup.
InSession == {"run", "loop", "try", "returned"} \cup SessionEnded

\* C12: the backup is written once, before the first run of the target, and
\* no fix cycle changes it: after any number of applied patches it equals the
\* content the target had at session start, and a revert invocation that
\* follows restores that content to the target.
C12_BackupIsSessionStart ==
    [][ /\ (backup' # backup \/ backup_exists' # backup_exists) =>
               pc = "main" /\ runs = 0
        /\ pc' \in InSession => backup_exists' /\ backup' = session_start'
        /\ (pc \in SessionEnded /\ pc' \in RevertEnded) =>
               file' = session_start /\ pc' = "reverted"
      ]_vars

\* Two patches were written and a revert has brought the first content back.
C12_Witness ==
    /\ pc = "reverted"
    /\ writes = 2
    /\ last_applied # session_start
    /\ file = session_start

\* C13: after a fatal error of a fix cycle (a failed exchange, an exception
\* while the batch is applied) the target equals the buffer written by the
\* last completed patch application, or its session-start content if there
\* is none, the backup is unchanged, and there is at most one write a cycle.
C13_FatalLeavesLastApplied ==
    /\ pc \in {"raised", "apply_error"} =>
          /\ file = last_applied
          /\ writes = 0 => file = session_start
          /\ backup_exists /\ backup = session_start
    /\ writes <= cycles

\* The second cycle failed while applying, after its buffer had changed.
C13_Witness ==
    /\ pc = "apply_error"
    /\ writes = 1
    /\ cycles = 2
    /\ file_lines # file
    /\ file = last_applied
    /\ file # session_start

\* C14: with the confirmation gate configured and an input other than "y" in
\* either case, apply_changes does not write the target and the process
\* ends: target and backup keep their pre-cycle content and the target is
\* not run again.
C14_DeclineWritesNothing ==
    [][ /\ (pc = "returned" /\ confirm /\ error' = "none"
               /\ confirmation' \notin {"y", "Y"}) =>
               /\ pc' = "declined"
               /\ ExitCode(pc') = 0
               /\ file' = file
               /\ backup' = backup
               /\ writes' = writes
        /\ pc = "declined" => runs' = runs /\ writes' = writes
      ]_vars

\* The operator declined the second patch of a session.
C14_Witness ==
    /\ pc = "declined"
    /\ confirm
    /\ confirmation = "n"
    /\ writes = 1
    /\ file_lines # file
    /\ file = last_applied

\* A step of the loop that exchanges a message with the model.
ExchangeStep == exchanges' = exchanges + 1

\* A step of the loop that writes the target.
WriteStep == writes' # writes \/ (file' # file /\ pc' \notin RevertEnded)

\* C15: an exchange with the model and a write of the target happen only
\* in the fixing that follows a run with nonzero exit status; the first run
\* with status zero ends the loop, with no exchange and no write after it,
\* and success is reached by such a run only.
C15_FixOnlyAfterFailedRun ==
    [][ /\ (ExchangeStep \/ WriteStep) =>
               runs >= 1 /\ returncode \notin {0, -1} /\ pc \notin SessionEnded
        /\ (runs' = runs + 1 /\ returncode' = 0) => pc' = "success"
        /\ (pc' = "success" /\ pc # "success") =>
               runs' = runs + 1 /\ returncode' = 0
        /\ pc = "success" =>
               /\ exchanges' = exchanges
               /\ writes' = writes
               /\ runs' = runs
               /\ pc' \in {"success"} \cup RevertEnded
      ]_vars

\* The third run of a session succeeded after two patches.
C15_Witness ==
    /\ pc = "success"
    /\ runs = 3
    /\ writes = 2
    /\ returncode = 0

\* C16: in a session started through main the Response Validator bounds the
\* exchanges: every reply that cannot be parsed uses up one of a finite
\* number of retries, so that the fixing ends with the exhausted-retries
\* error when the model never returns a JSON array.
C16_SessionRetriesBounded ==
    [][ (pc = "try" /\ pc' = "loop") =>
            nb_retry > 0 /\ nb_retry' = nb_retry - 1 ]_vars

\* C17: in revert mode main does not run the target, does not contact the
\* model and does not write the backup: with a backup it copies the backup
\* over the target and exits with status 0, without one it exits with
\* status 1 and leaves the target as it is.
C17_RevertOnly ==
    [][ (pc \notin RevertEnded /\ pc' \in RevertEnded) =>
            /\ runs' = runs
            /\ exchanges' = exchanges
            /\ messages' = messages
            /\ backup' = backup
            /\ backup_exists' = backup_exists
            /\ IF backup_exists
               THEN file' = backup /\ ExitCode(pc') = 0
               ELSE file' = file /\ ExitCode(pc') = 1
      ]_vars

\* A revert with no backup has ended with status 1 on a target with lines.
C17_Witness ==
    /\ pc = "no_backup"
    /\ ~backup_exists
    /\ runs = 0
    /\ file # <<>>
    /\ file = session_start

====
